---- MODULE Spec2Model ----
(***************************************************************************)
(* Model of the LED memory display of src/src/app.rs: MemoryRow (a 32-bit  *)
(* word with an address), TemplateApp (the bank of rows, its row count),   *)
(* and the persistence of TemplateApp through eframe's storage.            *)
(*                                                                         *)
(* TLC's integers are 32-bit signed, so a u32 word is held as a pair       *)
(* <<hi, lo>> of its two 16-bit halves; shifts and masks are computed on   *)
(* the halves exactly as the u32 operations compute them.                  *)
(* led_size, which no bank operation reads or writes, is left out.         *)
(***************************************************************************)
EXTENDS Integers, Sequences, FiniteSets, TLC

VARIABLES memory_rows,  \* TemplateApp.memory_rows: sequence of [address, data]
          num_rows,     \* TemplateApp.num_rows
          storage,      \* eframe storage under APP_KEY: None or Some(saved num_rows)
          op,           \* the last operation and its arguments
          before_add    \* rows before the last add_memory_row, kept over one remove

vars == <<memory_rows, num_rows, storage, op, before_add>>

\* ---------------------------------------------------------------- bounds
MaxRows == 5        \* add_memory_row is not called beyond this many rows
MaxLoad == 3        \* longest slice given to load_memory_from_array

\* ------------------------------------------------------- program constants
DefaultRows == 4    \* num_rows: 4 in Default::default
WordBits == 32      \* bit_index < 32
HalfBits == 16      \* width of one half of the <<hi, lo>> representation
Half == 65536       \* 2^16

\* Option: None, or Some(x)
None == <<>>
Some(x) == <<x>>

\* ------------------------------------------------------------ u32 words
W(hi, lo) == <<hi, lo>>
Zero == W(0, 0)
PatternA == W(43690, 43690)     \* 0xAAAAAAAA
Pattern5 == W(21845, 21845)     \* 0x55555555
TopBit == W(32768, 0)           \* 0x80000000
AllOnes == W(65535, 65535)      \* 0xFFFFFFFF

RECURSIVE And16(_, _, _)
And16(x, y, n) ==
    IF n = 0 THEN 0
    ELSE ((x % 2) * (y % 2)) + 2 * And16(x \div 2, y \div 2, n - 1)

RECURSIVE Or16(_, _, _)
Or16(x, y, n) ==
    IF n = 0 THEN 0
    ELSE (IF (x % 2) + (y % 2) > 0 THEN 1 ELSE 0) + 2 * Or16(x \div 2, y \div 2, n - 1)

\* a & b, a | b, !a on u32
BitAnd(a, b) == W(And16(a[1], b[1], HalfBits), And16(a[2], b[2], HalfBits))
BitOr(a, b) == W(Or16(a[1], b[1], HalfBits), Or16(a[2], b[2], HalfBits))
BitNot(a) == W(Half - 1 - a[1], Half - 1 - a[2])

\* 1 << i and a >> i on u32, for 0 <= i < 32
Shl1(i) == IF i < HalfBits THEN W(0, 2 ^ i) ELSE W(2 ^ (i - HalfBits), 0)
Shr(a, i) ==
    IF i < HalfBits
    THEN W(a[1] \div (2 ^ i),
           (a[2] \div (2 ^ i)) + (a[1] % (2 ^ i)) * (2 ^ (HalfBits - i)))
    ELSE W(0, a[1] \div (2 ^ (i - HalfBits)))

\* ------------------------------------------------------------ MemoryRow
MemoryRow_new(address, data) == [address |-> address, data |-> data]

get_bit(row, bit_index) ==
    IF bit_index < WordBits
    THEN BitAnd(Shr(row.data, bit_index), W(0, 1)) = W(0, 1)
    ELSE FALSE

\* set_bit with the mask of the clearing branch not inverted
set_bit_no_invert(row, bit_index, value) ==
    IF bit_index < WordBits
    THEN IF value
         THEN [row EXCEPT !.data = BitOr(row.data, Shl1(bit_index))]
         ELSE [row EXCEPT !.data = BitAnd(row.data, Shl1(bit_index))]
    ELSE row

\* set_bit without the range check, the shift amount wrapping at the width
set_bit_wrapping(row, bit_index, value) ==
    IF value
    THEN [row EXCEPT !.data = BitOr(row.data, Shl1(bit_index % WordBits))]
    ELSE [row EXCEPT !.data = BitAnd(row.data, BitNot(Shl1(bit_index % WordBits)))]

set_bit(row, bit_index, value) ==
    IF bit_index < WordBits
    THEN IF value
         THEN [row EXCEPT !.data = BitOr(row.data, Shl1(bit_index))]
         ELSE [row EXCEPT !.data = BitAnd(row.data, BitNot(Shl1(bit_index)))]
    ELSE row

\* ---------------------------------------------------------- TemplateApp
\* self is [memory_rows, num_rows]
App(rows, n) == [memory_rows |-> rows, num_rows |-> n]
Self == App(memory_rows, num_rows)

\* (i as u32) * 4; the product stays far below 2^32 for the row counts here
RowAddress(i) == i * 4

initialize_memory_rows(self) ==
    [self EXCEPT !.memory_rows =
        [i \in 1..self.num_rows |-> MemoryRow_new(RowAddress(i - 1), Zero)]]

Default == initialize_memory_rows(App(<<>>, DefaultRows))

\* add_memory_row taking the address from num_rows instead of the length
add_memory_row_by_num_rows(self) ==
    LET address == RowAddress(self.num_rows)
        rows == Append(self.memory_rows, MemoryRow_new(address, Zero))
    IN  App(rows, Len(rows))

add_memory_row(self) ==
    LET address == RowAddress(Len(self.memory_rows))
        rows == Append(self.memory_rows, MemoryRow_new(address, Zero))
    IN  App(rows, Len(rows))

\* remove_memory_row taking the first row instead of the last
remove_memory_row_first(self) ==
    IF self.memory_rows # <<>>
    THEN LET rows == Tail(self.memory_rows)
         IN  App(rows, Len(rows))
    ELSE self

\* remove_memory_row cutting the rows down to num_rows - 1
remove_memory_row_by_num_rows(self) ==
    IF self.memory_rows # <<>>
    THEN LET keep == IF self.num_rows - 1 < Len(self.memory_rows)
                     THEN self.num_rows - 1 ELSE Len(self.memory_rows)
             rows == SubSeq(self.memory_rows, 1, keep)
         IN  App(rows, Len(rows))
    ELSE self

remove_memory_row(self) ==
    IF self.memory_rows # <<>>
    THEN LET rows == SubSeq(self.memory_rows, 1, Len(self.memory_rows) - 1)
         IN  App(rows, Len(rows))
    ELSE self

\* position of the first row with the address, 0 when there is none
FindRow(rows, address) ==
    LET hits == {i \in 1..Len(rows) : rows[i].address = address}
    IN  IF hits = {} THEN 0 ELSE CHOOSE i \in hits : \A j \in hits : i <= j

\* set_memory_data taking the row at address / 4 instead of searching
set_memory_data_by_index(self, address, data) ==
    LET i == (address \div 4) + 1
    IN  IF i <= Len(self.memory_rows)
        THEN [self EXCEPT !.memory_rows[i].data = data]
        ELSE self

set_memory_data(self, address, data) ==
    LET i == FindRow(self.memory_rows, address)
    IN  IF i # 0
        THEN [self EXCEPT !.memory_rows[i].data = data]
        ELSE self

get_memory_data(self, address) ==
    LET i == FindRow(self.memory_rows, address)
    IN  IF i # 0 THEN Some(self.memory_rows[i].data) ELSE None

RECURSIVE GrowTo(_, _)
GrowTo(self, n) ==
    IF Len(self.memory_rows) < n THEN GrowTo(add_memory_row(self), n) ELSE self

\* load_memory_from_array without the growing loop
load_memory_from_array_no_grow(self, data) ==
    [self EXCEPT !.memory_rows =
        [i \in 1..Len(self.memory_rows) |->
            IF i <= Len(data)
            THEN [self.memory_rows[i] EXCEPT !.data = data[i]]
            ELSE self.memory_rows[i]]]

load_memory_from_array(self, data) ==
    LET grown == GrowTo(self, Len(data))
    IN  [grown EXCEPT !.memory_rows =
            [i \in 1..Len(grown.memory_rows) |->
                IF i <= Len(data)
                THEN [grown.memory_rows[i] EXCEPT !.data = data[i]]
                ELSE grown.memory_rows[i]]]

clear_memory(self) ==
    [self EXCEPT !.memory_rows =
        [i \in 1..Len(self.memory_rows) |-> [self.memory_rows[i] EXCEPT !.data = Zero]]]

\* set_test_pattern taking the parity of the address instead of the position
set_test_pattern_by_address(self) ==
    [self EXCEPT !.memory_rows =
        [i \in 1..Len(self.memory_rows) |->
            [self.memory_rows[i] EXCEPT
                !.data = IF self.memory_rows[i].address % 2 = 0
                         THEN PatternA ELSE Pattern5]]]

set_test_pattern(self) ==
    [self EXCEPT !.memory_rows =
        [i \in 1..Len(self.memory_rows) |->
            [self.memory_rows[i] EXCEPT
                !.data = IF (i - 1) % 2 = 0 THEN PatternA ELSE Pattern5]]]

\* draw_memory_row when the LED of bit_index is clicked
draw_memory_row_click(self, row_index, bit_index) ==
    IF row_index >= Len(self.memory_rows)
    THEN self
    ELSE LET row == self.memory_rows[row_index + 1]
             is_on == get_bit(row, bit_index)
         IN  [self EXCEPT !.memory_rows[row_index + 1] = set_bit(row, bit_index, ~is_on)]

\* what serde writes for TemplateApp: memory_rows is skipped
Serialize(self) == Some(self.num_rows)

\* what serde reads back under #[serde(default)]: every field that is not
\* in the stored value, the skipped memory_rows included, is taken from
\* Default::default()
Deserialize(stored) == [Default EXCEPT !.num_rows = stored]

TemplateApp_new(stored) ==
    IF stored # None THEN Deserialize(stored[1]) ELSE Default

\* --------------------------------------------------------------- inputs
DataValues == {Zero, TopBit}
\* the LEDs clicked: bits 0 and 31 of the first row
ClickRows == {0}
ClickBits == {0, 31}
\* addresses asked for: the first two rows, an unaligned one, one past the last row
Addresses == {RowAddress(0), RowAddress(1), 2, RowAddress(MaxRows)}
\* words and bit indices given to set_bit and get_bit
WordSamples ==
    {Zero, AllOnes, PatternA, Pattern5, TopBit, W(0, 1), W(4660, 43981),
     W(0, 65535), W(65535, 0), W(1, 32768)}
OutOfRange == {WordBits, WordBits + 1, 2 * WordBits, 2147483647}
BitIndices == (0..(WordBits - 1)) \cup OutOfRange

RECURSIVE SeqsUpTo(_, _)
SeqsUpTo(S, n) ==
    IF n = 0 THEN {<<>>}
    ELSE LET shorter == SeqsUpTo(S, n - 1)
         IN  shorter \cup {Append(s, x) : s \in {t \in shorter : Len(t) = n - 1}, x \in S}

Op(name, arg) == [name |-> name, arg |-> arg]

Apply(self) ==
    /\ memory_rows' = self.memory_rows
    /\ num_rows' = self.num_rows

\* -------------------------------------------------------------- actions
Init ==
    /\ memory_rows = Default.memory_rows
    /\ num_rows = Default.num_rows
    /\ storage = None
    /\ op = Op("new", <<>>)
    /\ before_add = <<>>

AddRow ==
    /\ Len(memory_rows) < MaxRows
    /\ Apply(add_memory_row(Self))
    /\ op' = Op("add_memory_row", <<>>)
    /\ before_add' = memory_rows
    /\ UNCHANGED storage

RemoveRow ==
    /\ Apply(remove_memory_row(Self))
    /\ op' = Op("remove_memory_row", <<op.name = "add_memory_row", memory_rows = <<>> >>)
    /\ before_add' = IF op.name = "add_memory_row" THEN before_add ELSE <<>>
    /\ UNCHANGED storage

SetData ==
    \E a \in Addresses, d \in DataValues :
        /\ Apply(set_memory_data(Self, a, d))
        /\ op' = Op("set_memory_data", <<a, d>>)
        /\ before_add' = <<>>
        /\ UNCHANGED storage

LoadArray ==
    \E data \in SeqsUpTo(DataValues, MaxLoad) :
        /\ Apply(load_memory_from_array(Self, data))
        /\ op' = Op("load_memory_from_array", <<data>>)
        /\ before_add' = <<>>
        /\ UNCHANGED storage

ClearAll ==
    /\ Apply(clear_memory(Self))
    /\ op' = Op("clear_memory", <<>>)
    /\ before_add' = <<>>
    /\ UNCHANGED storage

TestPattern ==
    /\ Apply(set_test_pattern(Self))
    /\ op' = Op("set_test_pattern", <<>>)
    /\ before_add' = <<>>
    /\ UNCHANGED storage

ClickLed ==
    \E r \in (0..(Len(memory_rows) - 1)) \cap ClickRows, b \in ClickBits :
        /\ Apply(draw_memory_row_click(Self, r, b))
        /\ op' = Op("click", <<r, b>>)
        /\ before_add' = <<>>
        /\ UNCHANGED storage

Save ==
    /\ storage' = Serialize(Self)
    /\ op' = Op("save", <<>>)
    /\ before_add' = <<>>
    /\ UNCHANGED <<memory_rows, num_rows>>

\* the application is started again on the same storage
NewSession ==
    /\ Apply(TemplateApp_new(storage))
    /\ op' = Op("new", <<>>)
    /\ before_add' = <<>>
    /\ UNCHANGED storage

Next ==
    \/ AddRow
    \/ RemoveRow
    \/ SetData
    \/ LoadArray
    \/ ClearAll
    \/ TestPattern
    \/ ClickLed
    \/ Save
    \/ NewSession

Spec == Init /\ [][Next]_vars

\* ------------------------------------------- one MemoryRow, one set_bit
\* A row is constructed from any sample word and one set_bit is applied.
InitWord ==
    /\ \E a \in {RowAddress(0), RowAddress(1)}, d \in WordSamples :
        memory_rows = <<MemoryRow_new(a, d)>>
    /\ num_rows = 1
    /\ storage = None
    /\ op = Op("MemoryRow_new", <<>>)
    /\ before_add = <<>>

SetBit ==
    \E i \in BitIndices, v \in BOOLEAN :
        /\ op.name = "MemoryRow_new"
        /\ memory_rows' = <<set_bit(memory_rows[1], i, v)>>
        /\ op' = Op("set_bit", <<i, v>>)
        /\ UNCHANGED <<num_rows, storage, before_add>>

NextWord == SetBit

SpecWord == InitWord /\ [][NextWord]_vars

\* ============================================================ properties
RowsOf(n) == [i \in 1..n |-> [address |-> 4 * (i - 1), data |-> Zero]]
Max(a, b) == IF a >= b THEN a ELSE b

\* C1: in every reachable state the row at 0-based position i has address
\* 4*i: addresses start at 0, step by 4, and no two rows share an address.
C1_AddressesByPosition ==
    /\ \A i \in 1..Len(memory_rows) : memory_rows[i].address = 4 * (i - 1)
    /\ \A i, j \in 1..Len(memory_rows) :
        i # j => memory_rows[i].address # memory_rows[j].address

C1_Witness ==
    /\ op.name = "add_memory_row"
    /\ Len(memory_rows) > DefaultRows
    /\ memory_rows[1].data # Zero

\* C2: num_rows equals the number of rows in memory_rows in every reachable
\* state, also after construction from persisted configuration.
C2_RowCountIsLen == num_rows = Len(memory_rows)

\* C3: at the start of every session the bank is initialize(row_count): n
\* zero rows at addresses 0, 4, ... when n was saved, 4 such rows when
\* nothing was saved.
C3_SessionStartsInitialized ==
    op.name = "new" =>
        memory_rows = RowsOf(IF storage = None THEN 4 ELSE storage[1])

\* C4: load_memory_from_array on k rows with m values leaves max(k, m)
\* rows, row i holding values[i] for i < m, the data of rows m..k-1 and the
\* addresses of the first k rows unchanged, each added row at address
\* 4 * position; no row is removed.
C4_LoadGrowsAndOverwrites ==
    [][op'.name = "load_memory_from_array" =>
        LET values == op'.arg[1]
            k == Len(memory_rows)
            m == Len(values)
        IN  /\ Len(memory_rows') = Max(k, m)
            /\ Len(memory_rows') >= k
            /\ \A i \in 1..m : memory_rows'[i].data = values[i]
            /\ \A i \in (m + 1)..k : memory_rows'[i].data = memory_rows[i].data
            /\ \A i \in 1..k : memory_rows'[i].address = memory_rows[i].address
            /\ \A i \in (k + 1)..Len(memory_rows') :
                memory_rows'[i].address = 4 * (i - 1)]_vars

C4_Witness ==
    /\ op.name = "load_memory_from_array"
    /\ Len(op.arg[1]) > 0
    /\ Len(op.arg[1]) < Len(memory_rows)
    /\ memory_rows[1].data = TopBit
    /\ memory_rows[Len(memory_rows)].data = PatternA

\* C5: for a bit index i < 32, after set_bit(i, v) get_bit(i) is v, get_bit(j)
\* is what it was for every other j < 32, and the address is unchanged.
C5_SetBitRoundTrip ==
    [][(op'.name = "set_bit" /\ op'.arg[1] < 32) =>
        LET i == op'.arg[1]
            v == op'.arg[2]
        IN  /\ get_bit(memory_rows'[1], i) = v
            /\ \A j \in (0..31) \ {i} :
                get_bit(memory_rows'[1], j) = get_bit(memory_rows[1], j)
            /\ memory_rows'[1].address = memory_rows[1].address]_vars

C5_Witness ==
    /\ op.name = "set_bit"
    /\ op.arg = <<31, FALSE>>
    /\ memory_rows[1].data = W(32767, 65535)

\* C6: for a bit index i >= 32, get_bit(i) is false and set_bit(i, v) leaves
\* the data and the address of the word unchanged, for both values of v.
C6_OutOfRangeBit ==
    [][(op'.name = "set_bit" /\ op'.arg[1] >= 32) =>
        /\ memory_rows' = memory_rows
        /\ ~get_bit(memory_rows[1], op'.arg[1])
        /\ ~get_bit(memory_rows'[1], op'.arg[1])]_vars

C6_Witness ==
    /\ op.name = "set_bit"
    /\ op.arg = <<32, FALSE>>
    /\ memory_rows[1].data = AllOnes

\* C7: add_memory_row followed immediately by remove_memory_row restores
\* the row sequence as it was before the add: same length, addresses, data.
C7_AddThenRemoveRestores ==
    (op.name = "remove_memory_row" /\ op.arg[1]) => memory_rows = before_add

C7_Witness ==
    /\ op.name = "remove_memory_row"
    /\ op.arg[1]
    /\ Len(memory_rows) >= 2
    /\ memory_rows[1].data # Zero
    /\ memory_rows[Len(memory_rows)].data # Zero

\* C8: set_memory_data(a, v) on an existing address changes only that row's
\* data and get_memory_data(a) is then Some(v), also for v = 0; on an
\* address no row has it changes nothing, creates no row, and
\* get_memory_data(a) is None, which differs from Some(0).
C8_SetAndGetByAddress ==
    [][op'.name = "set_memory_data" =>
        LET a == op'.arg[1]
            v == op'.arg[2]
            hits == {i \in 1..Len(memory_rows) : memory_rows[i].address = a}
            after == App(memory_rows', num_rows')
        IN  /\ num_rows' = num_rows
            /\ Len(memory_rows') = Len(memory_rows)
            /\ \A i \in 1..Len(memory_rows) :
                /\ memory_rows'[i].address = memory_rows[i].address
                /\ memory_rows'[i].data =
                       IF i \in hits THEN v ELSE memory_rows[i].data
            /\ IF hits # {}
               THEN get_memory_data(after, a) = Some(v)
               ELSE /\ get_memory_data(after, a) = None
                    /\ None # Some(Zero)]_vars

C8_Witness ==
    /\ op.name = "set_memory_data"
    /\ op.arg = <<4, TopBit>>
    /\ Len(memory_rows) = DefaultRows
    /\ get_memory_data(Self, 4) = Some(TopBit)
    /\ get_memory_data(Self, 0) = Some(Zero)
    /\ get_memory_data(Self, 2) = None

\* C9: set_test_pattern leaves 0xAAAAAAAA in every row at an even position
\* and 0x55555555 in every row at an odd one, the row count and the
\* addresses unchanged; a second set_test_pattern changes nothing.
C9_TestPattern ==
    [][op'.name = "set_test_pattern" =>
        /\ Len(memory_rows') = Len(memory_rows)
        /\ num_rows' = num_rows
        /\ \A i \in 1..Len(memory_rows) :
            /\ memory_rows'[i].address = memory_rows[i].address
            /\ memory_rows'[i].data =
                   IF (i - 1) % 2 = 0 THEN W(43690, 43690) ELSE W(21845, 21845)
        /\ (op.name = "set_test_pattern" => memory_rows' = memory_rows)]_vars

C9_Witness ==
    /\ op.name = "set_test_pattern"
    /\ Len(memory_rows) = 4
    /\ [i \in 1..4 |-> memory_rows[i].data] = <<PatternA, Pattern5, PatternA, Pattern5>>

\* C10: remove_memory_row on a non-empty bank removes exactly the last row
\* and leaves the others as they were; on an empty bank it changes nothing;
\* the row count never goes below 0.
C10_RemoveLastOrNothing ==
    [][op'.name = "remove_memory_row" =>
        /\ IF memory_rows # <<>>
           THEN /\ Len(memory_rows') = Len(memory_rows) - 1
                /\ \A i \in 1..Len(memory_rows') : memory_rows'[i] = memory_rows[i]
           ELSE /\ memory_rows' = <<>>
                /\ num_rows' = num_rows
        /\ num_rows' >= 0]_vars

C10_Witness ==
    /\ op.name = "remove_memory_row"
    /\ op.arg[2]
    /\ memory_rows = <<>>
    /\ num_rows = 0

====
